---- MODULE Spec2Model ----
(***************************************************************************)
(* IES2HDR (src/main.cpp): conversion of an IES photometric profile into   *)
(* a 128 x 128 Radiance HDR texture.                                       *)
(*                                                                         *)
(* The model follows the three functions of main.cpp:                      *)
(*   - the classifier inside IES2HDR (lines 46-110), which chooses the     *)
(*     1-D or the 2-D representation from the candela grid;                *)
(*   - IES2HDR itself (lines 18-141): open, load, classify, resample,      *)
(*     emit;                                                               *)
(*   - main (lines 165-236): single-file and directory (batch) mode, and   *)
(*     the handler of the try block around both.                           *)
(*                                                                         *)
(* Numbers.  A candela sample is a C float.  The model draws samples from  *)
(* the floats that are non-negative integers below 2^24, which binary32    *)
(* holds exactly, and keeps the one float operation that rounds on them:   *)
(* the product val * val (RoundF) and the quotient maxVal / minVal         *)
(* (FloatRatioExceeds).  The double accumulators sum and sumSq hold        *)
(* integers exactly.  stdDev / mean is kept as the fixed-point number      *)
(* Scale * stdDev / mean (one unit = 1 / Scale), and so are the running    *)
(* total and avgVariation.                                                 *)
(***************************************************************************)
EXTENDS Integers, Sequences, FiniteSets, TLC

VARIABLES
    pc,            \* position of the program (main and IES2HDR)
    argc,          \* main's argc
    argIsIes,      \* _stricmp(ext, ".ies") == 0 for argv[1]
    entries,       \* what _findfirst/_findnext enumerate: a sequence of [subdir]
    idx,           \* index in entries of fileinfo, the current entry
    calls,         \* history: the entries handed to IES2HDR, in order
    results,       \* history: what each IES2HDR call returned
    exitStatus,    \* main's return value, -1 while running
    info,          \* IESFileInfo: anglesNumH, anglesNumV, candela values
    loaded,        \* IESLoader.load returned true in the current conversion
    use1D,         \* the classifier's decision
    avgKind,       \* "unset" (not computed), "finite" or "nan"
    avgVariation,  \* the average, in units of 1 / Scale, when avgKind = "finite"
    calls1D,       \* number of saveAs1D invocations in the current conversion
    calls2D,       \* number of saveAs2D invocations in the current conversion
    resampleOk,    \* "none", "ok" or "fail": what the invoked resampler returned
    outOpened,     \* fopen(outpath, "wb") was called and returned a file
    headerOk,      \* "none", "ok" or "fail": RGBE_WriteHeader's result
    pixelsOk,      \* "none", "ok" or "fail": RGBE_WritePixels_RLE's result
    ret            \* "none", "ok" or "fail": the return value of the last IES2HDR

vars == << pc, argc, argIsIes, entries, idx, calls, results, exitStatus, info,
           loaded, use1D, avgKind, avgVariation, calls1D, calls2D, resampleOk,
           outOpened, headerOk, pixelsOk, ret >>

mainVars == << argc, argIsIes, entries, idx, calls, results, exitStatus >>
convVars == << info, loaded, use1D, avgKind, avgVariation, calls1D, calls2D,
               resampleOk, outOpened, headerOk, pixelsOk >>

----------------------------------------------------------------------------
(* Bounds of the model.                                                    *)

MaxH == 2
MaxV == 4
MaxSamples == 8
MaxLoadSamples == 2
MaxFiles == 3

(* The candela values a sample is drawn from: 0, and three values whose    *)
(* pairwise ratios fall on both sides of 1.2.  11587 * 11587 needs 27 bits *)
(* and is not a float; 12000 * 12000 and 14000 * 14000 are floats.         *)
Candela == {0, 11587, 12000, 14000}

----------------------------------------------------------------------------
(* Arithmetic.                                                             *)

Max(a, b) == IF a >= b THEN a ELSE b
Min(a, b) == IF a <= b THEN a ELSE b

(* The fixed-point unit of the model's doubles.                            *)
Scale == 10 ^ 4

(* Number of low bits a non-negative integer x < 2^31 loses when it is     *)
(* stored in a float (24-bit significand).                                 *)
FloatShift(x) ==
    CHOOSE k \in 0..7 : /\ x \div (2 ^ k) < 2 ^ 24
                        /\ (k = 0 \/ x \div (2 ^ (k - 1)) >= 2 ^ 24)

(* x rounded to the nearest float, ties to even.                           *)
RoundF(x) ==
    LET k == FloatShift(x)
        q == x \div (2 ^ k)
        r == x % (2 ^ k)
        half == IF k = 0 THEN 0 ELSE 2 ^ (k - 1)
        up == k > 0 /\ (r > half \/ (r = half /\ q % 2 = 1))
    IN  (IF up THEN q + 1 ELSE q) * (2 ^ k)

(* Lines 78-83: val * val is a float product, rounded before it is added   *)
(* to the double sumSq.                                                    *)
FloatSquare(val) == RoundF(val * val)

(* Significand of 1.2f: 1.2f = F12Significand / 2^23.                      *)
F12Significand == 10066330

(* Line 96: maxVal / minVal > 1.2f, the quotient being a float (rounded    *)
(* to nearest, ties to even), for 0 <= minVal <= maxVal < 2^24.  Rounding  *)
(* is monotonic, 1.25 is a float and 1.2 rounds to 1.2f: a quotient of at  *)
(* least 1.25 (or a division by 0, +inf) exceeds 1.2f and one of at most   *)
(* 1.2 does not.  In between, the 23 bits after the leading one of the     *)
(* quotient come from a long division in three digits of 7 bits and one of *)
(* 2 bits, and the remainder decides the rounding.                         *)
FloatRatioExceeds(maxVal, minVal) ==
    IF 4 * maxVal >= 5 * minVal THEN TRUE
    ELSE IF 5 * maxVal <= 6 * minVal THEN FALSE
    ELSE LET n1 == (maxVal - minVal) * 128
             n2 == (n1 % minVal) * 128
             n3 == (n2 % minVal) * 128
             n4 == (n3 % minVal) * 4
             q  == 2 ^ 23 + (n1 \div minVal) * 2 ^ 16 + (n2 \div minVal) * 2 ^ 9
                          + (n3 \div minVal) * 4 + (n4 \div minVal)
             r  == n4 % minVal
             up == 2 * r > minVal \/ (2 * r = minVal /\ q % 2 = 1)
         IN  (IF up THEN q + 1 ELSE q) > F12Significand

(* Integer square root of 0 <= x < 2^31, by Newton's iteration from above:  *)
(* the r with r*r <= x < (r+1)*(r+1).  r is the current estimate, never    *)
(* below the root; 46340 is the root of the largest x.                     *)
RECURSIVE ISqrtFrom(_, _)
ISqrtFrom(x, r) ==
    CHOOSE y \in { IF n >= r THEN r ELSE ISqrtFrom(x, n) :
                   n \in {(r + x \div r) \div 2} } : TRUE

ISqrt(x) == IF x = 0 THEN 0 ELSE ISqrtFrom(x, 46340)

(* std::sqrt in fixed point: Scale * sqrt(x).  x is first scaled by the    *)
(* largest power of 100 that keeps it below 2^31.                          *)
SqrtFix(x) ==
    LET s == CHOOSE t \in {1, 10, 100, 1000, 10000} :
                 /\ x <= 2147483647 \div (t * t)
                 /\ (t = 10000 \/ x > 2147483647 \div (100 * t * t))
    IN  ISqrt(x * s * s) * (Scale \div s)

----------------------------------------------------------------------------
(* The photometric grid (IESFileInfo, as IES2HDR reads it).                *)

(* All grids with at most n samples: anglesNumH x anglesNumV candela       *)
(* values, flattened horizontal-major.                                     *)
Grids(n) ==
    UNION { [anglesNumH : {H}, anglesNumV : {V}, candela : [1..(H * V) -> Candela]] :
            << H, V >> \in { hv \in (0..MaxH) \X (0..MaxV) : hv[1] * hv[2] <= n } }

NoInfo == [anglesNumH |-> 0, anglesNumV |-> 0, candela |-> << >>]

(* Line 78: candalaValues[h * verticalAngles + v], h and v counted from 0. *)
Sample(g, h, v) == g.candela[h * g.anglesNumV + v + 1]

----------------------------------------------------------------------------
(* The classifier, lines 46-110 of IES2HDR.                                *)

(* Lines 70-71: std::numeric_limits<float>::max(), above every sample of   *)
(* the model, and lowest(), its negation.                                  *)
FLT_MAX == 2147483647
FLT_LOWEST == - FLT_MAX

(* Line 97: the fixed penalty 0.5.                                         *)
Penalty == Scale \div 2

(* Line 103: kVariationThreshold = 0.15.                                   *)
kVariationThreshold == (15 * Scale) \div 100

(* Lines 70-84: minVal, maxVal, sum and sumSq of the horizontal samples    *)
(* at vertical angle v, accumulated from horizontal angle h on.            *)
RECURSIVE SliceStats(_, _, _, _)
SliceStats(g, v, h, acc) ==
    IF h >= g.anglesNumH THEN acc
    ELSE LET val == Sample(g, h, v)
         IN  SliceStats(g, v, h + 1,
                 [minVal |-> Min(acc.minVal, val),
                  maxVal |-> Max(acc.maxVal, val),
                  sum    |-> acc.sum + val,
                  sumSq  |-> acc.sumSq + FloatSquare(val)])

Slice(g, v) ==
    SliceStats(g, v, 0, [minVal |-> FLT_MAX, maxVal |-> FLT_LOWEST, sum |-> 0, sumSq |-> 0])

(* Lines 89-92: mean = sum / H, variance = sumSq / H - mean * mean,        *)
(* stdDev = sqrt(max(0, variance)), coeffVar = stdDev / mean.  With        *)
(* H * H * variance = H * sumSq - sum * sum and H * mean = sum, coeffVar   *)
(* is sqrt(max(0, H * sumSq - sum * sum)) / sum.                           *)
CoeffVar(s, H) == SqrtFix(Max(0, H * s.sumSq - s.sum * s.sum)) \div s.sum

(* Mutant of RatioPenalty: the ratio test without minVal > 0.              *)
RatioPenaltyUnguarded(s) ==
    IF FloatRatioExceeds(s.maxVal, s.minVal) THEN Penalty ELSE 0

(* Line 96: the max/min ratio test.                                        *)
RatioPenalty(s) ==
    IF s.minVal > 0 /\ FloatRatioExceeds(s.maxVal, s.minVal) THEN Penalty ELSE 0

(* Lines 86-98: what one vertical angle adds to avgVariation; s is the     *)
(* value of Slice(g, v), computed once.                                    *)
SliceContribution(g, v) ==
    CHOOSE c \in { IF s.sum > 0 THEN CoeffVar(s, g.anglesNumH) + RatioPenalty(s) ELSE 0 :
                   s \in {Slice(g, v)} } : TRUE

(* Lines 62-99: the loop over the vertical angles, from v on.              *)
RECURSIVE VariationTotal(_, _, _)
VariationTotal(g, v, total) ==
    IF v >= g.anglesNumV THEN total
    ELSE VariationTotal(g, v + 1, total + SliceContribution(g, v))

(* Line 101: avgVariation /= verticalAngles, a double divided by an int:   *)
(* 0.0 / 0 is NaN (the total of no slice is 0.0).                          *)
Average(total, V) ==
    IF V = 0 THEN [kind |-> "nan", val |-> 0]
    ELSE [kind |-> "finite", val |-> total \div V]

(* Line 106: avgVariation < kVariationThreshold; false for NaN.            *)
BelowThreshold(avg) == avg.kind = "finite" /\ avg.val < kVariationThreshold

(* Mutant of Classifier: anglesNumH < 1 instead of anglesNumH <= 1.        *)
ClassifierOffByOne(g) ==
    IF g.anglesNumH < 1
    THEN [use1D |-> TRUE, avgKind |-> "unset", avgVariation |-> 0]
    ELSE LET avg == Average(VariationTotal(g, 0, 0), g.anglesNumV)
         IN  [use1D |-> BelowThreshold(avg), avgKind |-> avg.kind,
              avgVariation |-> avg.val]

(* Mutant of Classifier: the total is divided by the number of vertical    *)
(* angles whose samples are not all 0.                                     *)
ClassifierRenormalised(g) ==
    IF g.anglesNumH <= 1
    THEN [use1D |-> TRUE, avgKind |-> "unset", avgVariation |-> 0]
    ELSE LET lit == Cardinality({ v \in 0..(g.anglesNumV - 1) : Slice(g, v).sum > 0 })
             avg == Average(VariationTotal(g, 0, 0),
                            IF g.anglesNumV = 0 THEN 0 ELSE Max(1, lit))
         IN  [use1D |-> BelowThreshold(avg), avgKind |-> avg.kind,
              avgVariation |-> avg.val]

(* Lines 46-106: the decision and the average that produced it.            *)
Classifier(g) ==
    IF g.anglesNumH <= 1
    THEN [use1D |-> TRUE, avgKind |-> "unset", avgVariation |-> 0]
    ELSE LET avg == Average(VariationTotal(g, 0, 0), g.anglesNumV)
         IN  [use1D |-> BelowThreshold(avg), avgKind |-> avg.kind,
              avgVariation |-> avg.val]

Classify ==
    /\ pc = "classify"
    /\ \E c \in {Classifier(info)} :
           /\ use1D' = c.use1D
           /\ avgKind' = c.avgKind
           /\ avgVariation' = c.avgVariation
    /\ pc' = "dispatch"
    /\ UNCHANGED << mainVars, info, loaded, calls1D, calls2D, resampleOk,
                    outOpened, headerOk, pixelsOk, ret >>

----------------------------------------------------------------------------
(* IES2HDR(path, outpath, info), lines 18-141, step by step.  What the     *)
(* collaborators (the file system, IESLoadHelper, the RGBE codec) answer   *)
(* is an input of the step, and so is the size of the input file.          *)

Outcome(ok) == IF ok THEN "ok" ELSE "fail"

(* A return statement of IES2HDR.                                          *)
Return(value) ==
    /\ ret' = value
    /\ pc' = "returned"

(* Lines 20-25: the input stream is opened; return false if it is not.     *)
OpenInput ==
    /\ pc = "open"
    /\ \E ok \in BOOLEAN :
           IF ok THEN pc' = "read" /\ UNCHANGED ret
                 ELSE Return("fail")
    /\ UNCHANGED << mainVars, convVars >>

(* Lines 27-33: the file is read into IESBuffer, a vector of streamSize +  *)
(* 1 bytes.  std::vector::resize throws (std::bad_alloc, std::length_error)*)
(* when a buffer of the size of the file cannot be allocated; nothing in   *)
(* IES2HDR catches, so control leaves IES2HDR and the loop of main for the *)
(* handler of main's try block.                                            *)
ReadInput ==
    /\ pc = "read"
    /\ \E fits \in BOOLEAN :
           pc' = (IF fits THEN "load" ELSE "catch")
    /\ UNCHANGED << mainVars, convVars, ret >>

(* Lines 35-37: IESLoader.load fills info; return false if load fails.     *)
Load ==
    /\ pc = "load"
    /\ \E ok \in BOOLEAN :
           IF ok THEN /\ \E g \in Grids(MaxLoadSamples) : info' = g
                      /\ loaded' = TRUE
                      /\ pc' = "classify"
                      /\ UNCHANGED ret
                 ELSE /\ Return("fail")
                      /\ UNCHANGED << info, loaded >>
    /\ UNCHANGED << mainVars, use1D, avgKind, avgVariation, calls1D, calls2D,
                    resampleOk, outOpened, headerOk, pixelsOk >>

(* Mutant of Dispatch: the else is missing, saveAs2D is always invoked.    *)
DispatchFallsThrough ==
    /\ pc = "dispatch"
    /\ calls1D' = (IF use1D THEN calls1D + 1 ELSE calls1D)
    /\ calls2D' = calls2D + 1
    /\ \E ok \in BOOLEAN :
           /\ resampleOk' = Outcome(ok)
           /\ IF ok THEN pc' = "fopen" /\ UNCHANGED ret
                    ELSE Return("fail")
    /\ UNCHANGED << mainVars, info, loaded, use1D, avgKind, avgVariation,
                    outOpened, headerOk, pixelsOk >>

(* Mutant of Dispatch: the resampler's result is not looked at.            *)
DispatchIgnoresFailure ==
    /\ pc = "dispatch"
    /\ IF use1D THEN calls1D' = calls1D + 1 /\ UNCHANGED calls2D
                ELSE calls2D' = calls2D + 1 /\ UNCHANGED calls1D
    /\ \E ok \in BOOLEAN : resampleOk' = Outcome(ok)
    /\ pc' = "fopen"
    /\ UNCHANGED << mainVars, info, loaded, use1D, avgKind, avgVariation,
                    outOpened, headerOk, pixelsOk, ret >>

(* Lines 112-121: saveAs1D if use1D, saveAs2D otherwise; return false if   *)
(* the resampler fails.                                                    *)
Dispatch ==
    /\ pc = "dispatch"
    /\ IF use1D THEN calls1D' = calls1D + 1 /\ UNCHANGED calls2D
                ELSE calls2D' = calls2D + 1 /\ UNCHANGED calls1D
    /\ \E ok \in BOOLEAN :
           /\ resampleOk' = Outcome(ok)
           /\ IF ok THEN pc' = "fopen" /\ UNCHANGED ret
                    ELSE Return("fail")
    /\ UNCHANGED << mainVars, info, loaded, use1D, avgKind, avgVariation,
                    outOpened, headerOk, pixelsOk >>

(* Lines 123-128: fopen(outpath, "wb"); return false if it fails.          *)
OpenOutput ==
    /\ pc = "fopen"
    /\ \E ok \in BOOLEAN :
           IF ok THEN outOpened' = TRUE /\ pc' = "header" /\ UNCHANGED ret
                 ELSE Return("fail") /\ UNCHANGED outOpened
    /\ UNCHANGED << mainVars, info, loaded, use1D, avgKind, avgVariation,
                    calls1D, calls2D, resampleOk, headerOk, pixelsOk >>

(* Lines 130-136: RGBE_WriteHeader; its result is not looked at.           *)
WriteHeader ==
    /\ pc = "header"
    /\ \E ok \in BOOLEAN : headerOk' = Outcome(ok)
    /\ pc' = "pixels"
    /\ UNCHANGED << mainVars, info, loaded, use1D, avgKind, avgVariation,
                    calls1D, calls2D, resampleOk, outOpened, pixelsOk, ret >>

(* Line 137: RGBE_WritePixels_RLE; its result is not looked at.            *)
WritePixels ==
    /\ pc = "pixels"
    /\ \E ok \in BOOLEAN : pixelsOk' = Outcome(ok)
    /\ pc' = "close"
    /\ UNCHANGED << mainVars, info, loaded, use1D, avgKind, avgVariation,
                    calls1D, calls2D, resampleOk, outOpened, headerOk, ret >>

(* Lines 138-140: fclose and return true.                                  *)
CloseAndReturn ==
    /\ pc = "close"
    /\ Return("ok")
    /\ UNCHANGED << mainVars, convVars >>

----------------------------------------------------------------------------
(* main, lines 165-236.                                                    *)

(* Line 173.                                                               *)
EXIT_FAILURE == 1

(* Lines 143-163 and 190 / 220: IES2HDR(path, info) is entered with a      *)
(* fresh IESFileInfo; entry is the index of the directory entry, 0 for     *)
(* argv[1].                                                                *)
CallIES2HDR(entry) ==
    /\ calls' = Append(calls, entry)
    /\ info' = NoInfo /\ loaded' = FALSE
    /\ use1D' = FALSE /\ avgKind' = "unset" /\ avgVariation' = 0
    /\ calls1D' = 0 /\ calls2D' = 0 /\ resampleOk' = "none"
    /\ outOpened' = FALSE /\ headerOk' = "none" /\ pixelsOk' = "none"
    /\ ret' = "none"
    /\ pc' = "open"

(* Lines 169-174: no argument.                                             *)
MainNoArgument ==
    /\ pc = "main"
    /\ argc <= 1
    /\ exitStatus' = EXIT_FAILURE
    /\ pc' = "exit"
    /\ UNCHANGED << argc, argIsIes, entries, idx, calls, results, convVars, ret >>

(* Lines 186-191: the argument ends in .ies: convert that file.            *)
MainSingleFile ==
    /\ pc = "main"
    /\ argc > 1
    /\ argIsIes
    /\ CallIES2HDR(0)
    /\ UNCHANGED << argc, argIsIes, entries, idx, results, exitStatus >>

(* Lines 191-193 and 235: the single conversion has returned; a failure    *)
(* is printed, and main returns 0.                                         *)
SingleFileReturn ==
    /\ pc = "returned"
    /\ argIsIes
    /\ results' = Append(results, ret)
    /\ exitStatus' = 0
    /\ pc' = "exit"
    /\ UNCHANGED << argc, argIsIes, entries, idx, calls, convVars, ret >>

(* Lines 194-205, 235: _findfirst on <dir>/*.ies; without a match main     *)
(* returns 0.                                                              *)
MainFindFirst ==
    /\ pc = "main"
    /\ argc > 1
    /\ ~ argIsIes
    /\ IF entries = << >>
       THEN exitStatus' = 0 /\ pc' = "exit" /\ UNCHANGED idx
       ELSE idx' = 1 /\ pc' = "entry" /\ UNCHANGED exitStatus
    /\ UNCHANGED << argc, argIsIes, entries, calls, results, convVars, ret >>

(* Lines 209-221: a subdirectory is skipped, any other entry is handed to  *)
(* IES2HDR.                                                                *)
BatchEntry ==
    /\ pc = "entry"
    /\ IF entries[idx].subdir
       THEN pc' = "findnext" /\ UNCHANGED << calls, convVars, ret >>
       ELSE CallIES2HDR(idx)
    /\ UNCHANGED << argc, argIsIes, entries, idx, results, exitStatus >>

(* Lines 221-222: the conversion of an entry has returned; a failure is    *)
(* printed.                                                                *)
BatchReturn ==
    /\ pc = "returned"
    /\ ~ argIsIes
    /\ results' = Append(results, ret)
    /\ pc' = "findnext"
    /\ UNCHANGED << argc, argIsIes, entries, idx, calls, exitStatus, convVars, ret >>

(* Lines 224-226, 235: _findnext; after the last entry _findclose and      *)
(* return 0.                                                               *)
FindNext ==
    /\ pc = "findnext"
    /\ IF idx < Len(entries)
       THEN idx' = idx + 1 /\ pc' = "entry" /\ UNCHANGED exitStatus
       ELSE exitStatus' = 0 /\ pc' = "exit" /\ UNCHANGED idx
    /\ UNCHANGED << argc, argIsIes, entries, calls, results, convVars, ret >>

(* Lines 229-235: the handler of the try block, which encloses the whole  *)
(* of main's work: the exception is printed and main returns 0.  The       *)
(* handler is outside the do-while loop, so the enumeration is not         *)
(* resumed.                                                                *)
CatchException ==
    /\ pc = "catch"
    /\ exitStatus' = 0
    /\ pc' = "exit"
    /\ UNCHANGED << argc, argIsIes, entries, idx, calls, results, convVars, ret >>

----------------------------------------------------------------------------
(* The program.                                                            *)

(* The directories of at most MaxFiles entries.                            *)
Directories == UNION { [1..n -> [subdir : BOOLEAN]] : n \in 0..MaxFiles }

Init ==
    /\ pc = "main"
    /\ argc \in 1..2
    /\ argIsIes \in BOOLEAN
    /\ entries \in Directories
    /\ (argc <= 1 \/ argIsIes) => entries = << >>
    /\ idx = 0 /\ calls = << >> /\ results = << >> /\ exitStatus = -1
    /\ info = NoInfo /\ loaded = FALSE
    /\ use1D = FALSE /\ avgKind = "unset" /\ avgVariation = 0
    /\ calls1D = 0 /\ calls2D = 0 /\ resampleOk = "none"
    /\ outOpened = FALSE /\ headerOk = "none" /\ pixelsOk = "none"
    /\ ret = "none"

Next ==
    \/ MainNoArgument
    \/ MainSingleFile
    \/ SingleFileReturn
    \/ MainFindFirst
    \/ BatchEntry
    \/ BatchReturn
    \/ FindNext
    \/ CatchException
    \/ OpenInput
    \/ ReadInput
    \/ Load
    \/ Classify
    \/ Dispatch
    \/ OpenOutput
    \/ WriteHeader
    \/ WritePixels
    \/ CloseAndReturn

Spec == Init /\ [][Next]_vars

(* The program is sequential and every step of it returns: a step that is  *)
(* possible is eventually taken.                                           *)
LiveSpec == Spec /\ WF_vars(Next)

----------------------------------------------------------------------------
(* The classifier alone, on every grid of at most MaxSamples samples: the  *)
(* state of a single-file run after IESLoader.load has returned true.      *)

InitClassify ==
    /\ pc = "classify"
    /\ argc = 2 /\ argIsIes = TRUE /\ entries = << >> /\ idx = 0
    /\ calls = << 0 >> /\ results = << >> /\ exitStatus = -1
    /\ info \in Grids(MaxSamples)
    /\ loaded = TRUE
    /\ use1D = FALSE /\ avgKind = "unset" /\ avgVariation = 0
    /\ calls1D = 0 /\ calls2D = 0 /\ resampleOk = "none"
    /\ outOpened = FALSE /\ headerOk = "none" /\ pixelsOk = "none"
    /\ ret = "none"

SpecClassify == InitClassify /\ [][Classify]_vars

----------------------------------------------------------------------------
(* Properties.                                                             *)

(* The current conversion has a classification: load succeeded and the     *)
(* classifier has run.  The conversion's variables keep their values after *)
(* it returns, until the next call of IES2HDR.                             *)
Classified == loaded /\ pc # "classify"

(* The current conversion is past the call of the resampler.               *)
Dispatched == loaded /\ pc \notin {"classify", "dispatch"}

(* main runs in directory mode.                                            *)
Batch == argc > 1 /\ ~ argIsIes

(* C1: a grid with at most one horizontal angle is classified 1-D whatever *)
(* its samples and its vertical angle count: no average is computed, and   *)
(* the resampler invoked is saveAs1D, never saveAs2D.                      *)
C1_SingleHorizontalAngleIs1D ==
    (Classified /\ info.anglesNumH <= 1) =>
        /\ use1D
        /\ avgKind = "unset"
        /\ calls2D = 0
        /\ (Dispatched => calls1D = 1)

C1_Witness ==
    /\ pc = "fopen"
    /\ info = [anglesNumH |-> 1, anglesNumV |-> 2, candela |-> << 0, 14000 >>]
    /\ use1D
    /\ calls1D = 1

(* C2: a conversion that gets past loading invokes exactly one resampler,  *)
(* once: saveAs1D iff use1D, saveAs2D iff not use1D.  Nothing is invoked   *)
(* before the classifier has decided, and the output file is opened only   *)
(* after the invocation.                                                   *)
C2_ExactlyOneResampler ==
    /\ ~ Dispatched => (calls1D = 0 /\ calls2D = 0 /\ resampleOk = "none" /\ ~ outOpened)
    /\ Dispatched => /\ calls1D + calls2D = 1
                     /\ (calls1D = 1 <=> use1D)
                     /\ (calls2D = 1 <=> ~ use1D)
                     /\ resampleOk # "none"

C2_Witness ==
    /\ pc = "header"
    /\ outOpened
    /\ ~ use1D
    /\ calls2D = 1
    /\ calls1D = 0

(* C3: when the invoked resampler reports failure the conversion returns   *)
(* failure to its caller and the output file is never opened: an opened    *)
(* output file has a successful resampler return before it.                *)
C3_ResamplerFailureAborts ==
    /\ resampleOk = "fail" =>
           /\ ~ outOpened
           /\ ret = "fail"
           /\ pc \in {"returned", "findnext", "entry", "exit"}
           /\ (pc # "returned" => results[Len(results)] = "fail")
    /\ outOpened => resampleOk = "ok"

C3_Witness ==
    /\ pc = "exit"
    /\ resampleOk = "fail"
    /\ ~ outOpened
    /\ results = << "fail" >>

(* C4: an emission failure is a conversion failure: IES2HDR returns        *)
(* success only when the resampler, the open of the output path, the       *)
(* header write and the pixel write all succeeded.                         *)
C4_EmissionFailurePropagates ==
    ret = "ok" => /\ resampleOk = "ok"
                  /\ outOpened
                  /\ headerOk = "ok"
                  /\ pixelsOk = "ok"

(* The entries of the directory that are not subdirectories, in            *)
(* enumeration order.                                                      *)
Files == SelectSeq([i \in 1..Len(entries) |-> i], LAMBDA i : ~ entries[i].subdir)

IsPrefix(s, t) == Len(s) <= Len(t) /\ SubSeq(t, 1, Len(s)) = s

(* C5: in directory mode every enumerated entry that is not a directory is *)
(* eventually handed to IES2HDR, in enumeration order and one at a time,   *)
(* whatever the earlier conversions returned: the run ends with every file *)
(* converted (or reported as failed) and none skipped.                     *)
C5_BatchConvertsEveryFile ==
    /\ [](Batch => /\ IsPrefix(calls, Files)
                   /\ Len(results) <= Len(calls)
                   /\ Len(calls) <= Len(results) + 1)
    /\ [](Batch /\ pc = "exit" => calls = Files)
    /\ (Batch ~> (pc = "exit" /\ calls = Files))

(* C6: in single-file mode the process exits with status 0 only when the   *)
(* conversion succeeded, and with a non-zero status when it failed.        *)
C6_SingleFileExitStatus ==
    (pc = "exit" /\ argc > 1 /\ argIsIes) => (exitStatus = 0 <=> ret = "ok")

(* C7: a grid with no vertical angle (and at least two horizontal angles)  *)
(* is rejected before the average is computed: avgVariation is never       *)
(* divided by 0 and no resampler is invoked for it.                        *)
C7_ZeroVerticalAnglesRejected ==
    (loaded /\ info.anglesNumH >= 2 /\ info.anglesNumV = 0) =>
        /\ avgKind # "nan"
        /\ calls1D = 0
        /\ calls2D = 0

(* The classifier has run on a grid with several horizontal angles and at  *)
(* least one vertical angle.                                               *)
ClassifiedMulti == pc = "dispatch" /\ info.anglesNumH >= 2 /\ info.anglesNumV >= 1

VerticalAngles == 0..(info.anglesNumV - 1)
HorizontalAngles == 0..(info.anglesNumH - 1)

(* All horizontal samples at vertical angle v are equal.                   *)
Uniform(v) == \A h \in HorizontalAngles : Sample(info, h, v) = Sample(info, 0, v)

(* All horizontal samples at vertical angle v are 0.                       *)
AllZero(g, v) == \A h \in 0..(g.anglesNumH - 1) : Sample(g, h, v) = 0

(* C8: when at every vertical angle all horizontal samples are equal, the  *)
(* classifier yields avgVariation = 0 and use1D = true.                    *)
C8_UniformSlicesHaveZeroVariation ==
    (ClassifiedMulti /\ \A v \in VerticalAngles : Uniform(v)) =>
        /\ avgKind = "finite"
        /\ avgVariation = 0
        /\ use1D

(* Step 2 of the classifier as the specification words it: the coefficient *)
(* of variation when sum > 0 and, independently of that branch, the        *)
(* penalty when minVal > 0 and maxVal / minVal > 1.2 (the float quotient   *)
(* against 1.2f).                                                          *)
Penalised(s) == s.minVal > 0 /\ FloatRatioExceeds(s.maxVal, s.minVal)

IndependentContribution(s, H) ==
    (IF s.sum > 0 THEN CoeffVar(s, H) ELSE 0) + (IF Penalised(s) THEN Penalty ELSE 0)

RECURSIVE SumOver(_, _)
SumOver(f, S) ==
    IF S = {} THEN 0
    ELSE LET x == CHOOSE y \in S : TRUE IN f[x] + SumOver(f, S \ {x})

ExtendZero(g) ==
    [anglesNumH |-> g.anglesNumH,
     anglesNumV |-> g.anglesNumV + 1,
     candela |-> [i \in 1..(g.anglesNumH * (g.anglesNumV + 1)) |->
                    LET h == (i - 1) \div (g.anglesNumV + 1)
                        v == (i - 1) % (g.anglesNumV + 1)
                    IN  IF v < g.anglesNumV THEN Sample(g, h, v) ELSE 0]]

(* C10: avgVariation is the sum of the slice contributions divided by the  *)
(* full vertical angle count, an all-zero slice contributing 0 and still   *)
(* counting in the divisor; one more all-zero slice never raises           *)
(* avgVariation and never turns use1D from true to false.                  *)
C10_AverageOverAllVerticalAngles ==
    ClassifiedMulti =>
        /\ avgKind = "finite"
        /\ avgVariation
               = SumOver([v \in VerticalAngles |->
                             IF AllZero(info, v) THEN 0 ELSE SliceContribution(info, v)],
                         VerticalAngles) \div info.anglesNumV
        /\ \A v \in VerticalAngles : AllZero(info, v) => SliceContribution(info, v) = 0
        /\ \A c \in { Classifier(ExtendZero(info)) } :
               /\ c.avgKind = "finite"
               /\ c.avgVariation <= avgVariation
               /\ (use1D => c.use1D)

(* The slice 14000, 11587 alone is 2-D (0.594); with three all-zero slices *)
(* beside it the average is 0.1485 and the grid is 1-D.                    *)
C10_Witness ==
    /\ pc = "dispatch"
    /\ info = [anglesNumH |-> 2, anglesNumV |-> 4,
               candela |-> << 14000, 0, 0, 0, 11587, 0, 0, 0 >>]
    /\ avgVariation = 1485
    /\ use1D
    /\ ~ Classifier([anglesNumH |-> 2, anglesNumV |-> 1,
                     candela |-> << 14000, 11587 >>]).use1D

====
